---- MODULE Spec2Model ----
(***************************************************************************)
(* Model of the module translation pipeline of wasmer:                     *)
(*   lib/compiler/src/translator/module.rs, translate_module,              *)
(* and of the run command that drives it:                                  *)
(*   lib/cli/src/commands/run.rs, get_store_module and inner_module_run.   *)
(* The byte-stream decoder (wasmparser's Parser::parse_all) is modelled by *)
(* the ordered sequence of items it yields: payloads, or one decode error. *)
(* The section translators (sections.rs), the Environment (environ.rs) and *)
(* the Translation State (state.rs) are modelled from the specification.   *)
(***************************************************************************)
EXTENDS Integers, Sequences, FiniteSets, TLC

VARIABLES
    data,                      \* the items Parser::new(0).parse_all(data) yields
    idx,                       \* position of the for loop in that sequence
    pc,                        \* where the running function stands
    module_translation_state,  \* ModuleTranslationState: the signature table
    environ,                   \* ModuleEnvironment
    calls,                     \* log of the invocations the running function made
    result,                    \* what the running function gave its caller
    run,                       \* number of the current call of translate_module
    prior,                     \* outcome of the previous call on the same buffer
    self,                      \* the Run command: its options
    instance,                  \* the Instance: its exports
    contents,                  \* the bytes of the file at self.path
    cache                      \* the FileSystemCache: hash -> entry on disk

vars == <<data, idx, pc, module_translation_state, environ, calls, result, run, prior,
          self, instance, contents, cache>>

\* the state of translate_module, and the state of the run command
translation == <<data, idx, module_translation_state, environ, run, prior>>
cli == <<self, instance, contents, cache>>

----------------------------------------------------------------------------
(* Bounds of the model *)

\* sections between the Version and the End (or error) item of a stream
MaxSections == 2
\* sections of a stream of the index-space specifications
MaxIndexSections == 3

----------------------------------------------------------------------------
(* Values *)

SigA == [params |-> <<"i32">>, results |-> <<"i32">>]
SigB == [params |-> <<>>, results |-> <<>>]

\* a section entry the lazy section reader fails to decode
Malformed == [malformed |-> TRUE]

Sig(s) == [malformed |-> FALSE, sig |-> s]
TypeIdx(t) == [malformed |-> FALSE, type |-> t]
Import(k, t) == [malformed |-> FALSE, kind |-> k, type |-> t]
Naming(i, n) == [malformed |-> FALSE, index |-> i, name |-> n]

\* byte offset in the buffer of the i-th item of a stream
OffsetOf(i) == 8 * i

----------------------------------------------------------------------------
(* The items the decoder can yield *)

Marker(k) == [kind |-> k]
Section(k, l) == [kind |-> k, items |-> l]
CodeSectionEntry(bytes) == [kind |-> "CodeSectionEntry", body |-> bytes]
DataCountSection(n) == [kind |-> "DataCountSection", count |-> n]
CustomSection(n, d) == [kind |-> "CustomSection", name |-> n, data |-> d]
\* a BinaryReaderError yielded in place of a payload
DecodeFailure == [kind |-> "BinaryReaderError"]

Plain == [malformed |-> FALSE]

TypeSections ==
    { Section("TypeSection", l) : l \in {<<Sig(SigA)>>, <<Sig(SigA), Sig(SigB)>>} }

UnsupportedKinds ==
    {"InstanceSection", "AliasSection", "ModuleSectionStart", "ModuleSectionEntry",
     "TagSection"}

ModuleLinkingKinds ==
    {"InstanceSection", "AliasSection", "ModuleSectionStart", "ModuleSectionEntry"}

\* custom sections named "name": each datum is one encoded name entry
NameSections ==
    { CustomSection("name", d) :
        d \in { <<Naming(0, "f")>>,
                <<Malformed>>,
                <<Naming(0, "f"), Malformed>>,
                <<Malformed, Naming(1, "g")>>,
                <<Naming(0, "f"), Malformed, Naming(2, "h")>> } }

\* custom sections of another name, one of them with the bytes of a name section
OtherCustomSections ==
    { CustomSection("producers", <<Naming(0, "f"), Malformed>>), CustomSection("", <<>>) }

\* the sections of the streams of Spec: every payload kind of wasmparser
Sections ==
    TypeSections
    \cup { Section("ImportSection", <<Import("func", 0), Import("table", 0)>>) }
    \cup { Section("FunctionSection", l) :
             l \in {<<TypeIdx(0)>>, <<TypeIdx(1)>>, <<TypeIdx(0), Malformed>>} }
    \cup { Section(k, <<Plain>>) :
             k \in {"TableSection", "MemorySection", "GlobalSection",
                    "ExportSection", "ElementSection"} }
    \cup { [kind |-> "StartSection", func |-> 0] }
    \cup { Marker("CodeSectionStart") }
    \cup { CodeSectionEntry(b) : b \in {<<>>, <<11>>, <<11, 12>>} }
    \cup { Section("DataSection", l) : l \in {<<>>, <<Plain>>, <<Plain, Plain>>} }
    \cup { DataCountSection(n) : n \in 0..2 }
    \cup { Marker(k) : k \in UnsupportedKinds }
    \cup NameSections
    \cup OtherCustomSections
    \cup { Marker("UnknownSection") }

\* the sections of the streams of SpecIndex: those that build the index spaces
IndexSections ==
    TypeSections
    \cup { Section("ImportSection", l) :
             l \in { <<Import("func", 0)>>,
                     <<Import("table", 0), Import("func", 1)>>,
                     <<Import("memory", 0), Import("global", 0)>> } }
    \cup { Section("FunctionSection", l) :
             l \in { <<TypeIdx(0)>>, <<TypeIdx(1), TypeIdx(0)>>, <<TypeIdx(2)>>,
                     <<TypeIdx(0), Malformed>> } }
    \cup { Section(k, <<Plain>>) : k \in {"TableSection", "MemorySection"} }
    \cup { Section("GlobalSection", <<Plain, Plain>>) }

SeqsUpTo(S, n) == UNION { [1..k -> S] : k \in 0..n }

\* A stream starts with Version and ends with End or with a decode error;
\* every item carries the offset of its first byte.
Layout(s, last) ==
    LET raw == <<Marker("Version")>> \o s \o <<last>>
    IN  [i \in 1..Len(raw) |-> [item |-> raw[i], offset |-> OffsetOf(i)]]

Streams(S, n) ==
    { Layout(s, last) : s \in SeqsUpTo(S, n), last \in {Marker("End"), DecodeFailure} }
    \cup { <<[item |-> DecodeFailure, offset |-> 0]>> }

----------------------------------------------------------------------------
(* Errors: the WasmError a translator or the decoder hands back *)

\* from_binaryreadererror_wasmerror: a decode error keeps its byte offset
from_binaryreadererror_wasmerror(offset) == [kind |-> "Decode", offset |-> offset]
StructuralError(offset) == [kind |-> "Structural", offset |-> offset]

----------------------------------------------------------------------------
(* The state a payload handler works on: the Translation State, the        *)
(* Environment, the call log, and the error of the `?` operator (a set     *)
(* holding at most one error).                                             *)

EmptyEnviron ==
    [ signatures |-> <<>>,
      functions |-> <<>>, tables |-> <<>>, memories |-> <<>>, globals |-> <<>>,
      exports |-> <<>>, start |-> {}, elements |-> <<>>,
      data |-> <<>>, passive_reserved |-> {},
      custom_sections |-> <<>>, function_names |-> <<>>,
      function_body_inputs |-> <<>> ]

Failed(m) == m.err # {}
Fail(m, e) == [m EXCEPT !.err = {e}]
Log(m, op, args) ==
    [m EXCEPT !.calls = Append(@, [op |-> op, at |-> m.at, args |-> args])]

\* the next entry of an index space: imported or defined, in encounter order
Entry(from, type) == [from |-> from, type |-> type]

----------------------------------------------------------------------------
(* Environment operations *)

declare_signature(sig, m) ==
    [m EXCEPT !.env.signatures = Append(@, sig)]

declare_import(imp, m) ==
    CASE imp.kind = "func"   -> [m EXCEPT !.env.functions = Append(@, Entry("import", imp.type))]
      [] imp.kind = "table"  -> [m EXCEPT !.env.tables = Append(@, Entry("import", imp.type))]
      [] imp.kind = "memory" -> [m EXCEPT !.env.memories = Append(@, Entry("import", imp.type))]
      [] imp.kind = "global" -> [m EXCEPT !.env.globals = Append(@, Entry("import", imp.type))]

declare_func_type(type, m) ==
    [m EXCEPT !.env.functions = Append(@, Entry("defined", type))]

declare_function_name(naming, m) ==
    Log([m EXCEPT !.env.function_names = Append(@, <<naming.index, naming.name>>)],
        "declare_function_name", <<naming.index, naming.name>>)

reserve_passive_data(count, m) ==
    Log([m EXCEPT !.env.passive_reserved = {count}], "reserve_passive_data", <<count>>)

define_function_body(state, body_bytes, body_offset, m) ==
    Log([m EXCEPT !.env.function_body_inputs =
                      Append(@, [offset |-> body_offset, length |-> Len(body_bytes)])],
        "define_function_body", <<state, body_bytes, body_offset>>)

custom_section(name, bytes, m) ==
    Log([m EXCEPT !.env.custom_sections = Append(@, <<name, bytes>>)],
        "custom_section", <<name, bytes>>)

----------------------------------------------------------------------------
(* Section translators: one entry at a time, stopping at the first error *)

type_entry(e, m) ==
    IF e.malformed THEN Fail(m, from_binaryreadererror_wasmerror(m.offset))
    ELSE declare_signature(e.sig, [m EXCEPT !.mts = Append(@, e.sig)])

import_entry(e, m) ==
    IF e.malformed THEN Fail(m, from_binaryreadererror_wasmerror(m.offset))
    ELSE declare_import(e, m)

function_entry(e, m) ==
    IF e.malformed THEN Fail(m, from_binaryreadererror_wasmerror(m.offset))
    ELSE IF e.type >= Len(m.env.signatures) THEN Fail(m, StructuralError(m.offset))
    ELSE declare_func_type(e.type, m)

table_entry(e, m) ==
    IF e.malformed THEN Fail(m, from_binaryreadererror_wasmerror(m.offset))
    ELSE [m EXCEPT !.env.tables = Append(@, Entry("defined", 0))]

memory_entry(e, m) ==
    IF e.malformed THEN Fail(m, from_binaryreadererror_wasmerror(m.offset))
    ELSE [m EXCEPT !.env.memories = Append(@, Entry("defined", 0))]

global_entry(e, m) ==
    IF e.malformed THEN Fail(m, from_binaryreadererror_wasmerror(m.offset))
    ELSE [m EXCEPT !.env.globals = Append(@, Entry("defined", 0))]

export_entry(e, m) ==
    IF e.malformed THEN Fail(m, from_binaryreadererror_wasmerror(m.offset))
    ELSE [m EXCEPT !.env.exports = Append(@, e)]

element_entry(e, m) ==
    IF e.malformed THEN Fail(m, from_binaryreadererror_wasmerror(m.offset))
    ELSE [m EXCEPT !.env.elements = Append(@, e)]

data_entry(e, m) ==
    IF e.malformed THEN Fail(m, from_binaryreadererror_wasmerror(m.offset))
    ELSE [m EXCEPT !.env.data = Append(@, e)]

\* a malformed name entry is skipped; it is no error
name_entry(e, m) ==
    IF e.malformed THEN m ELSE declare_function_name(e, m)

TranslateEntry(section, e, m) ==
    CASE section = "TypeSection"     -> type_entry(e, m)
      [] section = "ImportSection"   -> import_entry(e, m)
      [] section = "FunctionSection" -> function_entry(e, m)
      [] section = "TableSection"    -> table_entry(e, m)
      [] section = "MemorySection"   -> memory_entry(e, m)
      [] section = "GlobalSection"   -> global_entry(e, m)
      [] section = "ExportSection"   -> export_entry(e, m)
      [] section = "ElementSection"  -> element_entry(e, m)
      [] section = "DataSection"     -> data_entry(e, m)
      [] section = "name"            -> name_entry(e, m)

RECURSIVE ParseEntries(_, _, _, _)
ParseEntries(section, items, i, m) ==
    IF Failed(m) \/ i > Len(items) THEN m
    ELSE ParseEntries(section, items, i + 1, TranslateEntry(section, items[i], m))

parse_type_section(types, m) ==
    ParseEntries("TypeSection", types, 1, Log(m, "parse_type_section", <<types>>))

parse_import_section(imports, m) ==
    ParseEntries("ImportSection", imports, 1, Log(m, "parse_import_section", <<imports>>))

parse_function_section(functions, m) ==
    ParseEntries("FunctionSection", functions, 1,
                 Log(m, "parse_function_section", <<functions>>))

parse_table_section(tables, m) ==
    ParseEntries("TableSection", tables, 1, Log(m, "parse_table_section", <<tables>>))

parse_memory_section(memories, m) ==
    ParseEntries("MemorySection", memories, 1, Log(m, "parse_memory_section", <<memories>>))

parse_global_section(globals, m) ==
    ParseEntries("GlobalSection", globals, 1, Log(m, "parse_global_section", <<globals>>))

parse_export_section(exports, m) ==
    ParseEntries("ExportSection", exports, 1, Log(m, "parse_export_section", <<exports>>))

\* at most one start function per module
parse_start_section(func, m) ==
    LET l == Log(m, "parse_start_section", <<func>>)
    IN  IF l.env.start # {} THEN Fail(l, StructuralError(m.offset))
        ELSE [l EXCEPT !.env.start = {func}]

parse_element_section(elements, m) ==
    ParseEntries("ElementSection", elements, 1,
                 Log(m, "parse_element_section", <<elements>>))

\* the segments are reconciled against the count a DataCount section declared
parse_data_section(segments, m) ==
    LET l == Log(m, "parse_data_section", <<segments>>)
    IN  IF l.env.passive_reserved # {} /\ Len(segments) \notin l.env.passive_reserved
        THEN Fail(l, StructuralError(m.offset))
        ELSE ParseEntries("DataSection", segments, 1, l)

parse_name_section(names, m) ==
    ParseEntries("name", names.entries, 1, Log(m, "parse_name_section", <<names.entries>>))

----------------------------------------------------------------------------
(* wasmparser's readers, as translate_module uses them *)

get_binary_reader(code) ==
    [buffer |-> code.body, position |-> 0, original_offset |-> code.offset]

bytes_remaining(reader) == Len(reader.buffer) - reader.position

original_position(reader) == reader.original_offset + reader.position

\* fails when fewer than size bytes are left
read_bytes(reader, size) ==
    IF reader.position + size > Len(reader.buffer)
    THEN [ok |-> FALSE, bytes |-> <<>>]
    ELSE [ok |-> TRUE,
          bytes |-> SubSeq(reader.buffer, reader.position + 1, reader.position + size)]

\* wraps the section's bytes; the entries are decoded lazily by the translator
NameSectionReader_new(bytes, data_offset) ==
    [ok |-> TRUE, entries |-> bytes, offset |-> data_offset]

----------------------------------------------------------------------------
(* translate_module: the arms of the match on the payload *)


\* mutant: the Translation State of the previous call is used again
ModuleTranslationState_reused == module_translation_state

ModuleTranslationState_new == <<>>

Panic(m, msg) == [m EXCEPT !.panic = {msg}]

VersionOrEndArm(m) == m

TypeSectionArm(types, m) == parse_type_section(types, m)


\* mutant: the import arm also records a signature in the Translation State
ImportSectionArm_Records(imports, m) ==
    [parse_import_section(imports, m) EXCEPT !.mts = Append(@, SigA)]

ImportSectionArm(imports, m) == parse_import_section(imports, m)


\* mutant: the error of the function translator is dropped (no `?`)
FunctionSectionArm_Unchecked(functions, m) ==
    [parse_function_section(functions, m) EXCEPT !.err = {}]

FunctionSectionArm(functions, m) == parse_function_section(functions, m)


\* mutant: the table section is handed to the memory translator
TableSectionArm_AsMemory(tables, m) == parse_memory_section(tables, m)

TableSectionArm(tables, m) == parse_table_section(tables, m)

MemorySectionArm(memories, m) == parse_memory_section(memories, m)

GlobalSectionArm(globals, m) == parse_global_section(globals, m)

ExportSectionArm(exports, m) == parse_export_section(exports, m)

StartSectionArm(func, m) == parse_start_section(func, m)


\* mutant: the element section is handed to the data translator
ElementSectionArm_AsData(elements, m) == parse_data_section(elements, m)

ElementSectionArm(elements, m) == parse_element_section(elements, m)


\* mutant: the start of the code section reserves the function bodies
CodeSectionStartArm_Reserves(m) == Log(m, "reserve_function_bodies", <<>>)

CodeSectionStartArm(m) == m


\* mutant: an empty body is refused as a decode error
CodeSectionEntryArm_RejectsEmpty(code, m) ==
    LET reader == get_binary_reader(code)
        size == bytes_remaining(reader)
        offset == original_position(reader)
        read == read_bytes(reader, size)
    IN  IF ~read.ok \/ size = 0 THEN Fail(m, from_binaryreadererror_wasmerror(offset))
        ELSE define_function_body(m.mts, read.bytes, offset, m)

\* mutant: the first byte of the body is consumed before the range is taken
CodeSectionEntryArm_SkipsByte(code, m) ==
    LET fresh == get_binary_reader(code)
        reader == IF bytes_remaining(fresh) > 0
                  THEN [fresh EXCEPT !.position = @ + 1] ELSE fresh
        size == bytes_remaining(reader)
        offset == original_position(reader)
        read == read_bytes(reader, size)
    IN  IF ~read.ok THEN Fail(m, from_binaryreadererror_wasmerror(offset))
        ELSE define_function_body(m.mts, read.bytes, offset, m)

CodeSectionEntryArm(code, m) ==
    LET reader == get_binary_reader(code)
        size == bytes_remaining(reader)
        offset == original_position(reader)
        read == read_bytes(reader, size)
    IN  IF ~read.ok THEN Fail(m, from_binaryreadererror_wasmerror(offset))
        ELSE define_function_body(m.mts, read.bytes, offset, m)

DataSectionArm(segments, m) == parse_data_section(segments, m)


\* mutant: the declared count is dropped
DataCountSectionArm_Dropped(count, m) == m

DataCountSectionArm(count, m) == reserve_passive_data(count, m)


\* mutant: the module-linking payloads are skipped silently
ModuleLinkingArm_Ignored(m) == m

ModuleLinkingArm(m) == Panic(m, "not implemented: module linking not implemented yet")

TagSectionArm(m) == Panic(m, "not implemented: exception handling not implemented yet")



\* mutant: every custom section is decoded as a name section
CustomSectionArm_AllNames(name, bytes, data_offset, m) ==
    parse_name_section(NameSectionReader_new(bytes, data_offset), m)

\* mutant: the name section is stored like any other custom section
CustomSectionArm_Opaque(name, bytes, data_offset, m) == custom_section(name, bytes, m)

\* the arm for name: "name" comes first in the match
CustomSectionArm(name, bytes, data_offset, m) ==
    IF name = "name"
    THEN LET names == NameSectionReader_new(bytes, data_offset)
         IN  IF ~names.ok THEN Fail(m, from_binaryreadererror_wasmerror(data_offset))
             ELSE parse_name_section(names, m)
    ELSE custom_section(name, bytes, m)


\* mutant: an unknown section is reported as a decode error
UnknownSectionArm_Error(m) == Fail(m, from_binaryreadererror_wasmerror(m.offset))

UnknownSectionArm(m) == Panic(m, "internal error: entered unreachable code")

----------------------------------------------------------------------------
(* translate_module: the loop *)

\* translate_module called on its own: no run command around it
NoRun == <<>>

NoResult == [kind |-> "None", error |-> {}, state |-> {}, message |-> ""]
Ok(state) == [kind |-> "Ok", error |-> {}, state |-> {state}, message |-> ""]
Err(e) == [kind |-> "Err", error |-> {e}, state |-> {}, message |-> ""]
Panicked(msg) == [kind |-> "Panic", error |-> {}, state |-> {}, message |-> msg]

Cur == data[idx]

\* the loop is at an item of one of these kinds
At(kinds) == pc = "loop" /\ idx <= Len(data) /\ Cur.item.kind \in kinds

\* what a handler starts from
M == [ mts |-> module_translation_state, env |-> environ, calls |-> calls,
       err |-> {}, panic |-> {}, at |-> idx, offset |-> Cur.offset ]


\* mutant: an error is recorded but the loop goes on to the next payload
Propagate_Continue(m) ==
    /\ module_translation_state' = m.mts
    /\ environ' = m.env
    /\ calls' = m.calls
    /\ IF m.panic # {}
       THEN /\ pc' = "panicked"
            /\ result' = Panicked(CHOOSE msg \in m.panic : TRUE)
            /\ idx' = idx
       ELSE /\ pc' = pc
            /\ result' = IF m.err # {} THEN Err(CHOOSE e \in m.err : TRUE) ELSE result
            /\ idx' = idx + 1
    /\ UNCHANGED <<data, run, prior>>
    /\ UNCHANGED cli

\* the `?` after a handler: an error is returned at once, else the loop goes on
Propagate(m) ==
    /\ module_translation_state' = m.mts
    /\ environ' = m.env
    /\ calls' = m.calls
    /\ IF m.panic # {}
       THEN /\ pc' = "panicked"
            /\ result' = Panicked(CHOOSE msg \in m.panic : TRUE)
            /\ idx' = idx
       ELSE IF m.err # {}
       THEN /\ pc' = "returned"
            /\ result' = Err(CHOOSE e \in m.err : TRUE)
            /\ idx' = idx
       ELSE /\ pc' = pc
            /\ result' = result
            /\ idx' = idx + 1
    /\ UNCHANGED <<data, run, prior>>
    /\ UNCHANGED cli

Enter ==
    /\ pc = "entry"
    /\ module_translation_state' = ModuleTranslationState_new
    /\ pc' = "loop"
    /\ UNCHANGED <<data, idx, environ, calls, result, run, prior>>
    /\ UNCHANGED cli

DecodeError ==
    /\ At({"BinaryReaderError"})
    /\ Propagate(Fail(M, from_binaryreadererror_wasmerror(Cur.offset)))

VersionOrEnd == At({"Version", "End"}) /\ Propagate(VersionOrEndArm(M))
TypeSection == At({"TypeSection"}) /\ Propagate(TypeSectionArm(Cur.item.items, M))
ImportSection == At({"ImportSection"}) /\ Propagate(ImportSectionArm(Cur.item.items, M))
FunctionSection == At({"FunctionSection"}) /\ Propagate(FunctionSectionArm(Cur.item.items, M))
TableSection == At({"TableSection"}) /\ Propagate(TableSectionArm(Cur.item.items, M))
MemorySection == At({"MemorySection"}) /\ Propagate(MemorySectionArm(Cur.item.items, M))
GlobalSection == At({"GlobalSection"}) /\ Propagate(GlobalSectionArm(Cur.item.items, M))
ExportSection == At({"ExportSection"}) /\ Propagate(ExportSectionArm(Cur.item.items, M))
StartSection == At({"StartSection"}) /\ Propagate(StartSectionArm(Cur.item.func, M))
ElementSection == At({"ElementSection"}) /\ Propagate(ElementSectionArm(Cur.item.items, M))
CodeSectionStart == At({"CodeSectionStart"}) /\ Propagate(CodeSectionStartArm(M))
CodeEntry ==
    /\ At({"CodeSectionEntry"})
    /\ Propagate(CodeSectionEntryArm([body |-> Cur.item.body, offset |-> Cur.offset], M))
DataSection == At({"DataSection"}) /\ Propagate(DataSectionArm(Cur.item.items, M))
DataCount == At({"DataCountSection"}) /\ Propagate(DataCountSectionArm(Cur.item.count, M))
ModuleLinking == At(ModuleLinkingKinds) /\ Propagate(ModuleLinkingArm(M))
TagSection == At({"TagSection"}) /\ Propagate(TagSectionArm(M))
Custom ==
    /\ At({"CustomSection"})
    /\ Propagate(CustomSectionArm(Cur.item.name, Cur.item.data, Cur.offset, M))
UnknownSection == At({"UnknownSection"}) /\ Propagate(UnknownSectionArm(M))

\* the decoder is exhausted: Ok(module_translation_state)
Return ==
    /\ pc = "loop"
    /\ idx > Len(data)
    /\ pc' = "returned"
    /\ result' = Ok(module_translation_state)
    /\ UNCHANGED <<data, idx, module_translation_state, environ, calls, run, prior>>
    /\ UNCHANGED cli

\* the caller translates the same buffer once more, with a fresh Environment
Retranslate ==
    /\ pc \in {"returned", "panicked"}
    /\ run = 1
    /\ run' = 2
    /\ prior' = [result |-> result, environ |-> environ]
    /\ pc' = "entry"
    /\ idx' = 1
    /\ environ' = EmptyEnviron
    /\ calls' = <<>>
    /\ result' = NoResult
    /\ UNCHANGED <<data, module_translation_state>>
    /\ UNCHANGED cli

InitOn(streams) ==
    /\ data \in streams
    /\ idx = 1
    /\ pc = "entry"
    /\ module_translation_state = <<>>
    /\ environ = EmptyEnviron
    /\ calls = <<>>
    /\ result = NoResult
    /\ run = 1
    /\ prior = [result |-> NoResult, environ |-> EmptyEnviron]
    /\ self = NoRun
    /\ instance = NoRun
    /\ contents = NoRun
    /\ cache = NoRun

Init == InitOn(Streams(Sections, MaxSections))

IndexNext ==
    \/ Enter
    \/ DecodeError
    \/ VersionOrEnd
    \/ TypeSection
    \/ ImportSection
    \/ FunctionSection
    \/ TableSection
    \/ MemorySection
    \/ GlobalSection
    \/ Return

Next ==
    \/ IndexNext
    \/ ExportSection
    \/ StartSection
    \/ ElementSection
    \/ CodeSectionStart
    \/ CodeEntry
    \/ DataSection
    \/ DataCount
    \/ ModuleLinking
    \/ TagSection
    \/ Custom
    \/ UnknownSection

Spec == Init /\ [][Next]_vars

\* the index-space sections only, in longer streams
InitIndex == InitOn(Streams(IndexSections, MaxIndexSections))
SpecIndex == InitIndex /\ [][IndexNext]_vars

\* two calls of translate_module on the same buffer
SpecTwice == InitIndex /\ [][IndexNext \/ Retranslate]_vars

----------------------------------------------------------------------------
(* What the claims speak of *)

Kind(i) == data[i].item.kind

\* the loop stopped at item idx: an error was returned there, or it panicked
StoppedAtItem == pc \in {"returned", "panicked"} /\ idx <= Len(data)

\* the items handled to their end without an error
Passed == IF pc = "entry" THEN {} ELSE {i \in 1..Len(data) : i < idx}

CallsAt(i) == SelectSeq(calls, LAMBDA c : c.at = i)
CallsOf(op) == SelectSeq(calls, LAMBDA c : c.op = op)

IsNameSection(i) == Kind(i) = "CustomSection" /\ data[i].item.name = "name"

WellFormedEntries(l) == SelectSeq(l, LAMBDA e : ~e.malformed)

RECURSIVE NamesOf(_)
NamesOf(l) ==
    IF l = <<>> THEN <<>> ELSE <<<<Head(l).index, Head(l).name>>>> \o NamesOf(Tail(l))

UnimplementedMessage(k) ==
    IF k = "TagSection" THEN "not implemented: exception handling not implemented yet"
    ELSE "not implemented: module linking not implemented yet"

----------------------------------------------------------------------------
(* C1 *)

\* C1, as claimed: at a module-linking or TagSection payload translate_module
\* returns an error value of a kind of its own (unsupported feature), which is
\* neither a decode error nor a structural error, and never succeeds.
C1_ReturnsUnsupportedError ==
    (StoppedAtItem /\ Kind(idx) \in UnsupportedKinds) =>
        /\ result.kind = "Err"
        /\ \A e \in result.error : e.kind \notin {"Decode", "Structural"}

\* C1, amended: translate_module never gets past a module-linking or TagSection
\* payload; it stops at it with the unimplemented! panic, which is no error
\* value (no decode error, no structural error) and no successful result, and
\* nothing is invoked for that payload.
C1_PanicsUnimplemented ==
    /\ \A i \in Passed : Kind(i) \notin UnsupportedKinds
    /\ (StoppedAtItem /\ Kind(idx) \in UnsupportedKinds) =>
           /\ pc = "panicked"
           /\ result = Panicked(UnimplementedMessage(Kind(idx)))
           /\ CallsAt(idx) = <<>>

C1_Witness ==
    /\ pc = "panicked"
    /\ idx = 3
    /\ Kind(idx) = "AliasSection"
    /\ Kind(2) = "TypeSection"
    /\ result.message = "not implemented: module linking not implemented yet"

----------------------------------------------------------------------------
(* C2 *)

\* C2: once an error is returned the translation is over at the payload that
\* failed: the error is that payload's, nothing was invoked for a later
\* payload, and no Translation State comes back with it; a decode error of the
\* decoder is returned with its offset before anything is invoked for it.
C2_FirstErrorEnds ==
    result.kind = "Err" =>
        /\ pc = "returned"
        /\ idx <= Len(data)
        /\ result.state = {}
        /\ \A e \in result.error : e.offset = data[idx].offset
        /\ \A k \in 1..Len(calls) : calls[k].at <= idx
        /\ Kind(idx) = "BinaryReaderError" =>
               /\ result = Err(from_binaryreadererror_wasmerror(data[idx].offset))
               /\ CallsAt(idx) = <<>>

C2_Witness ==
    /\ result.kind = "Err"
    /\ \E e \in result.error : e.kind = "Structural"
    /\ idx = 2
    /\ Len(data) = 4
    /\ Kind(3) = "CodeSectionEntry"
    /\ environ.function_body_inputs = <<>>

----------------------------------------------------------------------------
(* C3 *)

\* C3: translate_module never stops at a custom section named "name", however
\* many of its entries are malformed; the well-formed names of the section are
\* all forwarded to the Environment, in order; and a module of name sections
\* alone translates successfully.
C3_MalformedNamesSkipped ==
    /\ StoppedAtItem => ~IsNameSection(idx)
    /\ \A i \in Passed :
           IsNameSection(i) =>
               LET forwarded == SelectSeq(CallsAt(i),
                                          LAMBDA c : c.op = "declare_function_name")
               IN  [k \in 1..Len(forwarded) |-> forwarded[k].args]
                       = NamesOf(WellFormedEntries(data[i].item.data))
    /\ ( /\ pc = "returned"
         /\ \A i \in 1..Len(data) : Kind(i) \in {"Version", "End"} \/ IsNameSection(i) )
         => result.kind = "Ok"

C3_Witness ==
    /\ pc = "returned"
    /\ result.kind = "Ok"
    /\ Len(data) = 3
    /\ IsNameSection(2)
    /\ data[2].item.data = <<Naming(0, "f"), Malformed, Naming(2, "h")>>
    /\ environ.function_names = << <<0, "f">>, <<2, "h">> >>

----------------------------------------------------------------------------
(* C4 *)

DeclaredCounts == {data[i].item.count : i \in {j \in Passed : Kind(j) = "DataCountSection"}}

\* C4, as claimed: whenever translate_module succeeds on a module with a
\* DataCount payload, the number of data segments parsed is the declared count.
C4_DataCountReconciled ==
    (pc = "returned" /\ result.kind = "Ok") =>
        \A n \in DeclaredCounts : Len(environ.data) = n

----------------------------------------------------------------------------
(* C5 *)

\* C5, as claimed: in a run in which a DataCount payload occurs, the
\* reserve_passive_data call comes before every parse_data_section call.
C5_ReserveBeforeAnyData ==
    \A k \in 1..Len(calls) :
        (calls[k].op = "parse_data_section" /\ CallsOf("reserve_passive_data") # <<>>) =>
            \E j \in 1..(k - 1) : calls[j].op = "reserve_passive_data"

\* C5, amended: when a DataCount payload precedes a Data section in the stream,
\* reserve_passive_data was invoked with the declared count, for that payload,
\* before the data section is handed to parse_data_section.
C5_ReserveBeforeLaterData ==
    \A k \in 1..Len(calls) :
        calls[k].op = "parse_data_section" =>
            \A i \in 1..(calls[k].at - 1) :
                Kind(i) = "DataCountSection" =>
                    \E j \in 1..(k - 1) :
                        /\ calls[j].op = "reserve_passive_data"
                        /\ calls[j].at = i
                        /\ calls[j].args = <<data[i].item.count>>

C5_Witness ==
    /\ pc = "returned"
    /\ result.kind = "Ok"
    /\ Len(calls) = 2
    /\ calls[1].op = "reserve_passive_data"
    /\ calls[1].args = <<2>>
    /\ calls[2].op = "parse_data_section"
    /\ Len(environ.data) = 2

----------------------------------------------------------------------------
(* What the stream declares, read off the stream itself *)

\* the entries of the sections of one kind at the positions P, in stream order
RECURSIVE EntriesFrom(_, _, _)
EntriesFrom(kind, P, i) ==
    IF i > Len(data) THEN <<>>
    ELSE (IF i \in P /\ Kind(i) = kind THEN data[i].item.items ELSE <<>>)
             \o EntriesFrom(kind, P, i + 1)

Declared(kind) == EntriesFrom(kind, Passed, 1)

ImportsOf(k) == SelectSeq(Declared("ImportSection"), LAMBDA e : e.kind = k)

\* the signatures of the Type sections before item i
SigsBefore(i) ==
    LET types == EntriesFrom("TypeSection", 1..(i - 1), 1)
    IN  [k \in 1..Len(types) |-> types[k].sig]

ImportedPart(l) == [k \in 1..Len(l) |-> Entry("import", l[k].type)]
DefinedPart(l, typed) ==
    [k \in 1..Len(l) |-> Entry("defined", IF typed THEN l[k].type ELSE 0)]

ImportedOf(space) == SelectSeq(space, LAMBDA e : e.from = "import")
DefinedOf(space) == SelectSeq(space, LAMBDA e : e.from = "defined")

\* no section of this kind comes before an Import section
ImportsPrecede(kind) ==
    \A i, j \in 1..Len(data) : (Kind(i) = "ImportSection" /\ Kind(j) = kind) => i < j

Spaces ==
    { [space |-> environ.functions, import |-> "func", section |-> "FunctionSection",
       typed |-> TRUE],
      [space |-> environ.tables, import |-> "table", section |-> "TableSection",
       typed |-> FALSE],
      [space |-> environ.memories, import |-> "memory", section |-> "MemorySection",
       typed |-> FALSE],
      [space |-> environ.globals, import |-> "global", section |-> "GlobalSection",
       typed |-> FALSE] }

Succeeded == pc = "returned" /\ result.kind = "Ok"

----------------------------------------------------------------------------
(* C6 *)

\* C6, as claimed: after a successful translation every index space is the
\* imported entries, in import order, followed by the defined entries, in
\* definition order.
C6_ImportsNumberedFirst ==
    Succeeded =>
        \A s \in Spaces :
            s.space = ImportedPart(ImportsOf(s.import))
                          \o DefinedPart(Declared(s.section), s.typed)

\* C6, amended: after a successful translation the size of every index space is
\* the number of imports of its kind plus the number of entries of its
\* definition section, its imported entries are in import order and its defined
\* entries in definition order; the imported entries are numbered first when
\* no definition section of the space precedes an Import section in the stream.
C6_IndexSpaces ==
    Succeeded =>
        \A s \in Spaces :
            /\ Len(s.space) = Len(ImportsOf(s.import)) + Len(Declared(s.section))
            /\ ImportedOf(s.space) = ImportedPart(ImportsOf(s.import))
            /\ DefinedOf(s.space) = DefinedPart(Declared(s.section), s.typed)
            /\ ImportsPrecede(s.section) =>
                   s.space = ImportedPart(ImportsOf(s.import))
                                 \o DefinedPart(Declared(s.section), s.typed)

C6_Witness ==
    /\ Succeeded
    /\ environ.functions = <<Entry("import", 1), Entry("defined", 1), Entry("defined", 0)>>
    /\ environ.tables = <<Entry("import", 0)>>
    /\ Len(data) = 5

----------------------------------------------------------------------------
(* C7 *)

\* a Function section whose first entry that cannot be taken is a well-formed
\* entry with a type index outside the signatures recorded before it
HasOutOfRangeType(i) ==
    /\ Kind(i) = "FunctionSection"
    /\ \E k \in 1..Len(data[i].item.items) :
           /\ \A j \in 1..k : ~data[i].item.items[j].malformed
           /\ data[i].item.items[k].type >= Len(SigsBefore(i))

\* C7: translate_module never gets past a Function section with an entry whose
\* type index is not below the number of signatures recorded so far: it stops
\* at that section with a structural error, and no defined function is ever
\* recorded with a signature index that was not declared.
C7_TypeIndexInBounds ==
    /\ \A i \in Passed : ~HasOutOfRangeType(i)
    /\ (StoppedAtItem /\ HasOutOfRangeType(idx)) =>
           result = Err(StructuralError(data[idx].offset))
    /\ \A k \in 1..Len(environ.functions) :
           environ.functions[k].from = "defined" =>
               environ.functions[k].type < Len(environ.signatures)
    /\ Succeeded => \A i \in 1..Len(data) : ~HasOutOfRangeType(i)

C7_Witness ==
    /\ StoppedAtItem
    /\ idx = 4
    /\ HasOutOfRangeType(idx)
    /\ data[idx].item.items = <<TypeIdx(2)>>
    /\ Len(environ.signatures) = 2
    /\ environ.functions = <<Entry("defined", 1), Entry("defined", 0)>>
    /\ result.kind = "Err"

----------------------------------------------------------------------------
(* C8 *)

\* C8: every call starts its loop with an empty Translation State, and the
\* second call on the same buffer, with a fresh Environment, ends as the first
\* did: the same outcome, the same returned signature table, the same
\* function-to-signature mapping.
C8_Deterministic ==
    /\ (pc = "loop" /\ idx = 1) => module_translation_state = <<>>
    /\ (run = 2 /\ pc \in {"returned", "panicked"}) =>
           /\ result = prior.result
           /\ environ.functions = prior.environ.functions
           /\ environ.signatures = prior.environ.signatures

C8_Witness ==
    /\ run = 2
    /\ Succeeded
    /\ result.state = {<<SigA, SigB>>}
    /\ environ.functions = <<Entry("defined", 1), Entry("defined", 0)>>
    /\ prior.result = result

----------------------------------------------------------------------------
(* C9, C10 *)

IsCodeEntry(i) == Kind(i) = "CodeSectionEntry"

\* the code entries handled so far, in stream order
CodePositions ==
    SelectSeq([i \in 1..Len(data) |-> i], LAMBDA i : i \in Passed /\ IsCodeEntry(i))

DefineCall(i) ==
    [op |-> "define_function_body", at |-> i,
     args |-> <<SigsBefore(i), data[i].item.body, data[i].offset>>]

\* C9: a code entry whose body is empty raises no error: translate_module never
\* stops at it, and invokes define_function_body for it once, with the empty
\* byte range and the offset of the body, so that a descriptor (offset, 0) is
\* registered.
C9_EmptyBodyRegistered ==
    \A i \in 1..Len(data) :
        (IsCodeEntry(i) /\ data[i].item.body = <<>>) =>
            /\ StoppedAtItem => idx # i
            /\ i \in Passed =>
                   /\ CallsAt(i) = <<[op |-> "define_function_body", at |-> i,
                                      args |-> <<SigsBefore(i), <<>>, data[i].offset>>]>>
                   /\ \E k \in 1..Len(environ.function_body_inputs) :
                          environ.function_body_inputs[k]
                              = [offset |-> data[i].offset, length |-> 0]

C9_Witness ==
    /\ Succeeded
    /\ Len(data) = 4
    /\ Kind(2) = "CodeSectionStart"
    /\ IsCodeEntry(3)
    /\ data[3].item.body = <<>>
    /\ environ.function_body_inputs = <<[offset |-> data[3].offset, length |-> 0]>>

\* C10: the k-th code entry of the stream gives the k-th define_function_body
\* call, the only invocation made for that entry, with the whole byte range of
\* the body, the offset of the body and the Translation State as it stands;
\* the entry never fails, and it leaves the Translation State as it was.
C10_BodyForwardedWhole ==
    /\ StoppedAtItem => ~IsCodeEntry(idx)
    /\ LET defined == CallsOf("define_function_body")
       IN  /\ Len(defined) = Len(CodePositions)
           /\ \A k \in 1..Len(defined) :
                  /\ defined[k] = DefineCall(CodePositions[k])
                  /\ CallsAt(CodePositions[k]) = <<defined[k]>>
                  /\ environ.function_body_inputs[k]
                         = [offset |-> data[CodePositions[k]].offset,
                            length |-> Len(data[CodePositions[k]].item.body)]
    /\ (pc = "loop" /\ (idx - 1) \in Passed /\ IsCodeEntry(idx - 1)) =>
           module_translation_state = SigsBefore(idx - 1)

C10_Witness ==
    /\ Succeeded
    /\ Len(data) = 4
    /\ IsCodeEntry(2)
    /\ IsCodeEntry(3)
    /\ data[2].item.body = <<11, 12>>
    /\ data[3].item.body = <<11>>
    /\ Len(CallsOf("define_function_body")) = 2
    /\ CallsOf("define_function_body")[2].args = <<<<>>, <<11>>, data[3].offset>>

----------------------------------------------------------------------------
(* C11 *)

\* the items translate_module has dealt with, to their end or to an error
Handled == Passed \cup (IF StoppedAtItem THEN {idx} ELSE {})

TranslatorOf(kind) ==
    CASE kind = "TypeSection"     -> "parse_type_section"
      [] kind = "ImportSection"   -> "parse_import_section"
      [] kind = "FunctionSection" -> "parse_function_section"
      [] kind = "TableSection"    -> "parse_table_section"
      [] kind = "MemorySection"   -> "parse_memory_section"
      [] kind = "GlobalSection"   -> "parse_global_section"
      [] kind = "ExportSection"   -> "parse_export_section"
      [] kind = "StartSection"    -> "parse_start_section"
      [] kind = "ElementSection"  -> "parse_element_section"
      [] kind = "DataSection"     -> "parse_data_section"

TranslatedKinds ==
    {"TypeSection", "ImportSection", "FunctionSection", "TableSection", "MemorySection",
     "GlobalSection", "ExportSection", "StartSection", "ElementSection", "DataSection"}

SectionTranslators == {TranslatorOf(k) : k \in TranslatedKinds}

\* the one invocation a section payload is due
Dispatch(i) ==
    [op |-> TranslatorOf(Kind(i)), at |-> i,
     args |-> IF Kind(i) = "StartSection" THEN <<data[i].item.func>>
              ELSE <<data[i].item.items>>]

\* C11: the invocations follow the order of the stream, none is made for a
\* payload the loop has not reached; every Type, Import, Function, Table,
\* Memory, Global, Export, Start, Element or Data payload dealt with was handed
\* exactly once, with its own content, to the translator of its kind, and no
\* other payload was handed to any of these translators.
C11_DispatchInStreamOrder ==
    /\ \A k \in 1..(Len(calls) - 1) : calls[k].at <= calls[k + 1].at
    /\ \A k \in 1..Len(calls) : calls[k].at \in Handled
    /\ \A i \in Handled :
           LET translated == SelectSeq(CallsAt(i), LAMBDA c : c.op \in SectionTranslators)
           IN  IF Kind(i) \in TranslatedKinds
               THEN translated = <<Dispatch(i)>> /\ Head(CallsAt(i)) = Dispatch(i)
               ELSE translated = <<>>

C11_Witness ==
    /\ Succeeded
    /\ Len(data) = 4
    /\ Kind(2) = "ElementSection"
    /\ Kind(3) = "DataSection"
    /\ [k \in 1..Len(calls) |-> calls[k].op]
           = <<"parse_element_section", "parse_data_section">>
    /\ Len(environ.data) = 2

----------------------------------------------------------------------------
(* C12 *)

IsCustom(i) == Kind(i) = "CustomSection"

\* the custom sections of another name dealt with so far, in stream order
OpaquePositions ==
    SelectSeq([i \in 1..Len(data) |-> i],
              LAMBDA i : i \in Passed /\ IsCustom(i) /\ ~IsNameSection(i))

\* C12: a custom section named "name" is handed to the name-section translator
\* and never to custom_section; a custom section of any other name gives one
\* custom_section call with exactly its name and bytes, and nothing else: its
\* bytes are not decoded. The Environment holds these sections in the order of
\* the stream.
C12_CustomSectionsRouted ==
    /\ \A i \in Handled :
           IsCustom(i) =>
               IF IsNameSection(i)
               THEN /\ Head(CallsAt(i))
                           = [op |-> "parse_name_section", at |-> i,
                              args |-> <<data[i].item.data>>]
                    /\ \A k \in 1..Len(CallsAt(i)) : CallsAt(i)[k].op # "custom_section"
               ELSE CallsAt(i) = <<[op |-> "custom_section", at |-> i,
                                    args |-> <<data[i].item.name, data[i].item.data>>]>>
    /\ environ.custom_sections
           = [k \in 1..Len(OpaquePositions) |->
                  <<data[OpaquePositions[k]].item.name, data[OpaquePositions[k]].item.data>>]
    /\ \A k \in 1..Len(calls) :
           calls[k].op \in {"parse_name_section", "declare_function_name"}
               => IsNameSection(calls[k].at)

C12_Witness ==
    /\ Succeeded
    /\ Len(data) = 4
    /\ IsNameSection(2)
    /\ data[2].item.data = <<Naming(0, "f"), Malformed>>
    /\ IsCustom(3)
    /\ data[3].item.name = "producers"
    /\ environ.custom_sections = << <<"producers", <<Naming(0, "f"), Malformed>> >> >>
    /\ environ.function_names = << <<0, "f">> >>

----------------------------------------------------------------------------
(* C13 *)

UnreachableMessage == "internal error: entered unreachable code"

\* C13: translate_module never gets past an UnknownSection payload: it stops
\* at it with the panic of unreachable!, which is neither an error value
\* (decode or structural) nor a successful result, and which differs from the
\* outcome at a module-linking or TagSection payload; nothing is invoked for
\* the payload.
C13_UnknownSectionPanics ==
    /\ \A i \in Passed : Kind(i) # "UnknownSection"
    /\ (StoppedAtItem /\ Kind(idx) = "UnknownSection") =>
           /\ pc = "panicked"
           /\ result = Panicked(UnreachableMessage)
           /\ result.kind \notin {"Ok", "Err"}
           /\ result.error = {}
           /\ result.state = {}
           /\ \A k \in UnsupportedKinds : result # Panicked(UnimplementedMessage(k))
           /\ CallsAt(idx) = <<>>

C13_Witness ==
    /\ pc = "panicked"
    /\ idx = 3
    /\ Kind(idx) = "UnknownSection"
    /\ Kind(2) = "TypeSection"
    /\ result.message = UnreachableMessage

----------------------------------------------------------------------------
(* C14 *)

IsPrefix(s, t) == Len(s) <= Len(t) /\ SubSeq(t, 1, Len(s)) = s

\* C14: a step of translate_module changes the Translation State only when the
\* payload in hand is a TypeSection, and then only by appending: the
\* signatures recorded before the step are all still there, unchanged.
C14_StateAppendOnly ==
    [][ /\ IsPrefix(module_translation_state, module_translation_state')
        /\ module_translation_state' # module_translation_state => At({"TypeSection"})
      ]_vars

C14_Witness ==
    /\ pc = "loop"
    /\ idx = 4
    /\ Kind(2) = "TypeSection"
    /\ Kind(3) = "ImportSection"
    /\ module_translation_state = <<SigA, SigB>>
    /\ Len(environ.functions) = 1

----------------------------------------------------------------------------
(* C15 *)

Markers == {"Version", "End", "CodeSectionStart"}

\* C15: the step that handles a Version, End or CodeSectionStart payload
\* invokes nothing, leaves the Environment and the Translation State as they
\* were, returns no error and goes on to the next payload.
C15_MarkersAreNoOps ==
    [][ At(Markers) =>
            /\ UNCHANGED <<environ, module_translation_state, calls, result>>
            /\ pc' = "loop"
            /\ idx' = idx + 1
      ]_vars

C15_Witness ==
    /\ pc = "loop"
    /\ idx = 4
    /\ Kind(2) = "TypeSection"
    /\ Kind(3) = "CodeSectionStart"
    /\ Len(calls) = 1
    /\ calls[1].at = 2
    /\ environ.signatures = <<SigA>>

----------------------------------------------------------------------------
(* run.rs: the instance the run command was given, and its command line *)

\* parameters of an exported function
MaxParams == 1
\* application arguments on the command line
MaxArgs == 1

\* what Exports holds under a name: nothing, an extern that is not a
\* function, or a function of so many i32 parameters
Missing == [extern |-> "Missing", params |-> {}]
Global == [extern |-> "Global", params |-> {}]
Function(n) == [extern |-> "Function", params |-> {n}]
Externs == {Missing, Global} \cup {Function(n) : n \in 0..MaxParams}

ExportNames == {"_initialize", "_start", "f"}
Instances == [ExportNames -> Externs]

\* the strings of the command line: "7" parses as an i32, "x" does not
Args == SeqsUpTo({"7", "x"}, MaxArgs)
Invokes == {<<>>} \cup {<<name>> : name \in ExportNames \cup {"g"}}

\* instance.exports.get_function(name)
get_function(name) ==
    IF name \in DOMAIN instance THEN instance[name] ELSE Missing

\* what the run function has done so far: its log, and the error of `?`
R == [calls |-> calls, err |-> {}, exit |-> FALSE]
\* an anyhow::Error: its message, and what it was made from
Error(msg, source) == [msg |-> msg, source |-> source]
Bail(r, e) == [r EXCEPT !.err = {e}]
Did(r, op, name, args, outcome) ==
    IF r.err # {} \/ r.exit THEN r
    ELSE [r EXCEPT !.calls = Append(@, [op |-> op, name |-> name, args |-> args,
                                        outcome |-> outcome])]

\* Function::call: the arguments must fit the type, then the guest code
\* returns, traps, or ends the program (WASI proc_exit unwinds as an error)
Outcomes == {"returns", "traps", "exits"}
call(name, args, outcome, r) ==
    LET func == get_function(name)
        fits == func.params = {Len(args)}
        called == Did(r, "call", name, args, IF fits THEN outcome ELSE "mismatch")
    IN  IF fits /\ outcome = "returns" THEN called
        ELSE Bail(called, Error("RuntimeError", IF fits THEN outcome ELSE "mismatch"))

\* with_context: the error wrapped in a message
with_context(msg, r) ==
    IF r.err = {} THEN r ELSE [r EXCEPT !.err = {Error(msg, (CHOOSE e \in r.err : TRUE).msg)}]

\* try_find_function: the export looked up, or an error that names it
try_find_function(name, r) ==
    LET func == get_function(name)
        looked == Did(r, "get_function", name, <<>>, func.extern)
    IN  IF func.extern = "Function" THEN looked
        ELSE IF func.extern = "Missing" THEN Bail(looked, Error("No export found in the module", name))
        ELSE Bail(looked, Error("Export found, but is not a function", name))

\* str::parse::<i32>
parses(arg) == arg = "7"

\* invoke_function: lookup, argument count, argument conversion, call
invoke_function(invoke, args, outcome, r) ==
    LET found == try_find_function(invoke, r)
        func == get_function(invoke)
    IN  IF found.err # {} THEN found
        ELSE IF func.params # {Len(args)}
        THEN Bail(found, Error("Function expected arguments", invoke))
        ELSE IF \E k \in 1..Len(args) : ~parses(args[k])
        THEN Bail(found, Error("Can't convert into a i32", invoke))
        ELSE call(invoke, args, outcome, found)

----------------------------------------------------------------------------
(* run.rs: inner_module_run *)

\* mutant: the outcome of the _initialize call is dropped
InitializeStep_Unchecked(outcome, r) ==
    LET looked == Did(r, "get_function", "_initialize", <<>>,
                      get_function("_initialize").extern)
    IN  IF get_function("_initialize").extern = "Function"
        THEN [call("_initialize", <<>>, outcome, looked) EXCEPT !.err = {}]
        ELSE looked

\* lines 239-243: _initialize, when the instance exports such a function
InitializeStep(outcome, r) ==
    LET looked == Did(r, "get_function", "_initialize", <<>>,
                      get_function("_initialize").extern)
    IN  IF get_function("_initialize").extern = "Function"
        THEN with_context("failed to run _initialize function",
                          call("_initialize", <<>>, outcome, looked))
        ELSE looked

\* lines 246-253: --invoke
InvokeStep(outcome, r) ==
    invoke_function(Head(self.invoke), self.args, outcome, r)

\* Wasi::handle_result: a WasiError::Exit ends the process with its code,
\* any other error is handed on
handle_result(r) ==
    IF r.err = {Error("RuntimeError", "exits")}
    THEN [r EXCEPT !.err = {}, !.exit = TRUE]
    ELSE r

\* lines 254-263: no --invoke, the module's _start
StartStep(outcome, r) ==
    LET found == try_find_function("_start", r)
    IN  IF found.err # {} THEN found
        ELSE handle_result(call("_start", <<>>, outcome, found))

\* the `?` of inner_module_run, and its Ok(()) on line 265
Finish(r, next) ==
    /\ calls' = r.calls
    /\ IF r.exit THEN pc' = "exited" /\ result' = result
       ELSE IF r.err # {}
       THEN pc' = "returned" /\ result' = Err(CHOOSE e \in r.err : TRUE)
       ELSE IF next = "returned"
       THEN pc' = "returned" /\ result' = Ok(<<>>)
       ELSE pc' = next /\ result' = result
    /\ UNCHANGED <<translation, cli>>

Initialize ==
    /\ pc = "inner_module_run"
    /\ \E outcome \in Outcomes : Finish(InitializeStep(outcome, R), "entry point")

Invoke ==
    /\ pc = "entry point"
    /\ self.invoke # <<>>
    /\ \E outcome \in Outcomes : Finish(InvokeStep(outcome, R), "returned")

Start ==
    /\ pc = "entry point"
    /\ self.invoke = <<>>
    /\ \E outcome \in Outcomes : Finish(StartStep(outcome, R), "returned")

\* the options of a run that is given its instance
RunOf(invoke, args) ==
    [invoke |-> invoke, args |-> args, disable_cache |-> FALSE, cache_key |-> <<>>]

InitModuleRun ==
    /\ pc = "inner_module_run"
    /\ instance \in Instances
    /\ self \in {RunOf(invoke, args) : invoke \in Invokes, args \in Args}
    /\ contents = NoRun
    /\ cache = NoRun
    /\ calls = <<>>
    /\ result = NoResult
    /\ data = <<>>
    /\ idx = 1
    /\ module_translation_state = <<>>
    /\ environ = EmptyEnviron
    /\ run = 1
    /\ prior = [result |-> NoResult, environ |-> EmptyEnviron]

NextModuleRun == Initialize \/ Invoke \/ Start

SpecModuleRun == InitModuleRun /\ [][NextModuleRun]_vars

----------------------------------------------------------------------------
(* C16 *)

ExportsInitialize == get_function("_initialize").extern = "Function"
Invoked == self.invoke # <<>>

\* _initialize is looked up and called, with no arguments, before anything
\* else; when that call fails the run ends there with its error
InitializeFirst ==
    ExportsInitialize =>
        /\ Len(calls) >= 2
        /\ calls[1].op = "get_function" /\ calls[1].name = "_initialize"
        /\ calls[2].op = "call" /\ calls[2].name = "_initialize"
        /\ calls[2].args = <<>>
        /\ calls[2].outcome # "returns" =>
               /\ Len(calls) = 2
               /\ pc = "returned"
               /\ result = Err(Error("failed to run _initialize function", "RuntimeError"))
        /\ (pc = "returned" /\ result.kind = "Ok") => calls[2].outcome = "returns"

\* C16, as stated: an exported function _initialize is called before the
\* invoked function or _start is looked up or called, a failing _initialize
\* ends the run with its error and nothing else is called, and with --invoke
\* _start is never called.
C16_StartNeverCalledWithInvoke ==
    pc # "inner_module_run" =>
        /\ InitializeFirst
        /\ Invoked => \A k \in 1..Len(calls) :
                          ~(calls[k].op = "call" /\ calls[k].name = "_start")

\* C16, amended: as above, but with --invoke the export _start is looked up
\* and called only when it is itself the invoked function, through
\* invoke_function and with the command line's arguments; the lookup of
\* _start as the default entry point is never made.
C16_InitializeThenEntryPoint ==
    pc # "inner_module_run" =>
        /\ InitializeFirst
        /\ Invoked => \A k \in 1..Len(calls) :
                          calls[k].name = "_start" =>
                              /\ Head(self.invoke) = "_start"
                              /\ calls[k].op = "call" => calls[k].args = self.args
        /\ ~Invoked /\ pc = "returned" /\ result.kind = "Ok" =>
               /\ calls[Len(calls)].op = "call"
               /\ calls[Len(calls)].name = "_start"

\* _initialize ran, then the function --invoke names, and _start did not
C16_Witness ==
    /\ pc = "returned"
    /\ result.kind = "Ok"
    /\ ExportsInitialize
    /\ get_function("_start").extern = "Function"
    /\ self.invoke = <<"f">>
    /\ Len(calls) = 4
    /\ calls[2].outcome = "returns"
    /\ calls[4].op = "call" /\ calls[4].name = "f" /\ calls[4].args = <<"7">>

----------------------------------------------------------------------------
(* run.rs: the file at self.path and the compilation cache *)

\* how far from the caching threshold the file lengths of the model lie
MaxDelta == 1
\* the 0x1000 of `contents.len() > 0x1000`
CachedOver == 4096

Lens == (CachedOver - MaxDelta)..(CachedOver + MaxDelta)

\* a file: its bytes, their number, whether they compile (or, for a
\* serialized artifact, deserialize), and whether they are an artifact
Files == [bytes : {"A"}, len : Lens, valid : BOOLEAN, artifact : BOOLEAN]

\* a Module, compiled from some bytes; set_name names it after the file
Module(bytes) == [compiled_from |-> bytes, name |-> ""]
set_name(module) == [module EXCEPT !.name = "file"]

\* Hash::generate(contents) and Hash::from_str(key)
Hash_generate(c) == <<"blake3", c.bytes>>
is_hash(key) == key = "00ff"
Hash_from_str(key) == <<"hex", key>>
CacheKeys == {<<>>, <<"zz">>, <<"00ff">>}
Hashes == {Hash_generate(c) : c \in Files} \cup {Hash_from_str("00ff")}

\* what the cache directory holds under a hash
Absent == [entry |-> "Absent", module |-> {}]
Corrupted == [entry |-> "Corrupted", module |-> {}]
Cached(module) == [entry |-> "Module", module |-> {module}]
Entries == {Absent, Corrupted, Cached(Module("A")), Cached(Module("B"))}
Caches == [Hashes -> Entries]

\* what the file system and the engine answer during one run
Io == [read : BOOLEAN, get_store : BOOLEAN, get_cache : BOOLEAN, store : BOOLEAN]

\* what get_store_module has done so far
G == [calls |-> calls, err |-> {}, cache |-> cache, module |-> {}]
Noted(g, op, args, outcome) ==
    [g EXCEPT !.calls = Append(@, [op |-> op, args |-> args, outcome |-> outcome])]

\* Module::new(store, contents)
Module_new(c, g) ==
    IF c.valid
    THEN [Noted(g, "Module::new", <<c.bytes>>, "Ok") EXCEPT !.module = {Module(c.bytes)}]
    ELSE Bail(Noted(g, "Module::new", <<c.bytes>>, "CompileError"),
              Error("CompileError", c.bytes))

\* Module::deserialize_from_file(store, path)
deserialize_from_file(c, g) ==
    IF c.valid
    THEN [Noted(g, "deserialize_from_file", <<c.bytes>>, "Ok")
              EXCEPT !.module = {Module(c.bytes)}]
    ELSE Bail(Noted(g, "deserialize_from_file", <<c.bytes>>, "DeserializeError"),
              Error("DeserializeError", c.bytes))

\* FileSystemCache::load: a missing file is an Io error
cache_load(hash, g) ==
    LET found == g.cache[hash]
    IN  IF found.entry = "Module"
        THEN [Noted(g, "cache.load", <<hash>>, "Ok") EXCEPT !.module = found.module]
        ELSE IF found.entry = "Absent"
        THEN Bail(Noted(g, "cache.load", <<hash>>, "Io"), Error("DeserializeError", "Io"))
        ELSE Bail(Noted(g, "cache.load", <<hash>>, "Corrupted"),
                  Error("DeserializeError", "Corrupted"))

\* FileSystemCache::store
cache_store(hash, module, io, g) ==
    IF io.store
    THEN [Noted(g, "cache.store", <<hash, module>>, "Ok")
              EXCEPT !.cache = [@ EXCEPT ![hash] = Cached(module)]]
    ELSE Bail(Noted(g, "cache.store", <<hash, module>>, "Io"), Error("SerializeError", "Io"))

----------------------------------------------------------------------------
(* run.rs: get_store_module and get_module_from_cache *)

\* get_cache: the cache directory of the compiler, which may fail to open
get_cache(io, g) ==
    IF io.get_cache THEN Noted(g, "get_cache", <<>>, "Ok")
    ELSE Bail(Noted(g, "get_cache", <<>>, "Io"), Error("FileSystemCache::new", "Io"))

\* lines 449-453: the hash of --cache-key when it parses, else of the contents
cache_hash(c) ==
    IF self.cache_key # <<>> /\ is_hash(Head(self.cache_key))
    THEN Hash_from_str(Head(self.cache_key))
    ELSE Hash_generate(c)

\* lines 456-464: an Io error is passed over in silence, another is warned of
load_failed(loaded) ==
    IF loaded.err = {Error("DeserializeError", "Io")}
    THEN [loaded EXCEPT !.err = {}]
    ELSE Noted([loaded EXCEPT !.err = {}], "warning", <<>>, "cached module is corrupted")

get_module_from_cache(c, io, g) ==
    LET opened == get_cache(io, g)
        hash == cache_hash(c)
        loaded == cache_load(hash, opened)
        compiled == Module_new(c, load_failed(loaded))
    IN  IF opened.err # {} THEN opened
        ELSE IF loaded.err = {} THEN loaded
        ELSE IF compiled.err # {} THEN compiled
        ELSE cache_store(hash, CHOOSE m \in compiled.module : TRUE, io, compiled)

\* mutant: a file of exactly 0x1000 bytes is cached as well
use_cache_Inclusive(c) == ~self.disable_cache /\ c.len >= CachedOver

\* line 415: the condition under which the cache is used
use_cache(c) == ~self.disable_cache /\ c.len > CachedOver

\* lines 406-412: the file is read; a serialized artifact is deserialized
ReadStep(io, g) ==
    IF ~io.read THEN Bail(Noted(g, "fs::read", <<>>, "Io"), Error("fs::read", "Io"))
    ELSE IF contents.artifact
    THEN deserialize_from_file(contents, Noted(g, "fs::read", <<>>, "Ok"))
    ELSE Noted(g, "fs::read", <<>>, "Ok")

\* line 413: self.store.get_store()
GetStoreStep(io, g) ==
    IF io.get_store THEN Noted(g, "get_store", <<>>, "Ok")
    ELSE Bail(Noted(g, "get_store", <<>>, "Err"), Error("get_store", "Err"))

\* lines 423-430: the error gets its context, the module its name
Named(g) ==
    IF g.err # {} THEN with_context("module instantiation failed", g)
    ELSE [g EXCEPT !.module = {set_name(m) : m \in @}]

\* the `?` and the returns of get_store_module
Gives(g, next) ==
    /\ calls' = g.calls
    /\ cache' = g.cache
    /\ IF g.err # {}
       THEN pc' = "returned" /\ result' = Err(CHOOSE e \in g.err : TRUE)
       ELSE IF g.module # {}
       THEN pc' = "returned" /\ result' = Ok(CHOOSE m \in g.module : TRUE)
       ELSE pc' = next /\ result' = result
    /\ UNCHANGED <<translation, self, instance, contents>>

ReadFile ==
    /\ pc = "get_store_module"
    /\ \E io \in Io : Gives(ReadStep(io, G), "get_store")

GetStore ==
    /\ pc = "get_store"
    /\ \E io \in Io : Gives(GetStoreStep(io, G), "module_result")

FromCache ==
    /\ pc = "module_result"
    /\ use_cache(contents)
    /\ \E io \in Io : Gives(Named(get_module_from_cache(contents, io, G)), "returned")

Compile ==
    /\ pc = "module_result"
    /\ ~use_cache(contents)
    /\ Gives(Named(Module_new(contents, G)), "returned")

InitStoreModule ==
    /\ pc = "get_store_module"
    /\ contents \in Files
    /\ cache \in Caches
    /\ self \in { [invoke |-> <<>>, args |-> <<>>, disable_cache |-> d, cache_key |-> k] :
                  d \in BOOLEAN, k \in CacheKeys }
    /\ instance = NoRun
    /\ calls = <<>>
    /\ result = NoResult
    /\ data = <<>>
    /\ idx = 1
    /\ module_translation_state = <<>>
    /\ environ = EmptyEnviron
    /\ run = 1
    /\ prior = [result |-> NoResult, environ |-> EmptyEnviron]

NextStoreModule == ReadFile \/ GetStore \/ FromCache \/ Compile

SpecStoreModule == InitStoreModule /\ [][NextStoreModule]_vars

----------------------------------------------------------------------------
(* C17 *)

CacheOps == {"get_cache", "cache.load", "cache.store"}
Ops(op) == {k \in 1..Len(calls) : calls[k].op = op}
Loads == Ops("cache.load")
Compiles == Ops("Module::new")
Stores == Ops("cache.store")

\* the cache is touched only when it is enabled and the file is longer than
\* 0x1000 bytes, and it is asked for the hash of the run
ConsultedOnlyWhenLarge ==
    /\ (\E k \in 1..Len(calls) : calls[k].op \in CacheOps) =>
           ~self.disable_cache /\ contents.len > CachedOver
    /\ \A k \in Loads : calls[k].args = <<cache_hash(contents)>>

\* a hit: the module found in the cache is what is returned, named, and
\* nothing is compiled or stored
HitReturnsCached ==
    \A k \in Loads : calls[k].outcome = "Ok" =>
        /\ Compiles = {} /\ Stores = {}
        /\ pc = "returned"
        /\ result \in {Ok(set_name(m)) : m \in cache[cache_hash(contents)].module}

\* a failed load is followed by a compilation of the file contents, and a
\* failing compilation is followed by no store
MissCompiles ==
    \A k \in Loads : calls[k].outcome # "Ok" =>
        /\ Cardinality(Compiles) = 1
        /\ \A c \in Compiles :
               /\ c > k
               /\ calls[c].args = <<contents.bytes>>
               /\ calls[c].outcome # "Ok" =>
                      /\ Stores = {}
                      /\ cache[cache_hash(contents)].entry # "Module"
                      /\ pc = "returned" /\ result.kind = "Err"
               /\ calls[c].outcome = "Ok" =>
                      /\ Cardinality(Stores) = 1
                      /\ \A s \in Stores :
                             /\ s > c
                             /\ calls[s].args = <<cache_hash(contents), Module(contents.bytes)>>

\* the compiled module has been stored under the hash and is returned
StoredAndReturned ==
    /\ cache[cache_hash(contents)] = Cached(Module(contents.bytes))
    /\ pc = "returned"
    /\ result = Ok(set_name(Module(contents.bytes)))

====
